---- MODULE Spec2Model ----
(***************************************************************************)
(* anerd: Asynchronous Network Exchange Randomness Daemon (src/anerd.c).   *)
(*                                                                         *)
(* main() reads the configuration and forks: the child runs anerd_client   *)
(* (the initiator), the parent runs anerd_server (the responder).  The two *)
(* processes share no memory; each is modelled by a program counter over   *)
(* the statements of its function.  The network, the randomness device,    *)
(* the clock and the C library are the environment: a call whose result    *)
(* the code tests, or uses, has every result as a nondeterministic choice. *)
(*                                                                         *)
(* Buffer indices are C indices (0-based); a TLA+ sequence holding a C     *)
(* buffer keeps C index i at position i+1.                                 *)
(***************************************************************************)
EXTENDS Integers, Sequences, FiniteSets, TLC

(***************************************************************************)
(* Bounds of the model.                                                    *)
(***************************************************************************)
\* the largest block size (-s) the model configures
MaxSize == 2

\* the values a byte takes in the model (a datagram's, a drawn block's)
Byte == {0, 1}

\* the block sizes main() may hand to the two roles (atoi accepts any int)
Sizes == -1..MaxSize

\* tv_usec readings of gettimeofday(), and results of rand()
TvUsec == {0, 1}
Rand == {0, 9}

\* the values the responder's uninitialised salt may turn out to hold: the
\* zero sentinel, and a value that rand() does not return
Indeterminate == {0, 5}

(***************************************************************************)
(* Program constants.                                                      *)
(***************************************************************************)
DEFAULT_PORT == 26373

\* sizeof(uint64_t): the bytes of a salt as fwrite() appends them
SaltLen == 8

\* the datagram sources of the model: a peer on an ephemeral port, and a
\* peer sending from the service port itself
Peers == {[ip |-> "203.0.113.5", port |-> 40000],
          [ip |-> "203.0.113.9", port |-> DEFAULT_PORT]}

\* client_addr before the first recvfrom() fills it in
NoAddr == [ip |-> "unset", port |-> 0]

\* no sendto() call was made
NoDgram == [len |-> -1, payload |-> <<>>, to |-> NoAddr]

(***************************************************************************)
(* Helpers.                                                                *)
(***************************************************************************)
Min(a, b) == IF a < b THEN a ELSE b

\* all sequences of length n over the bytes of B
RECURSIVE BlocksOver(_, _)
BlocksOver(B, n) ==
  IF n <= 0 THEN {<<>>}
  ELSE {Append(b, x) : b \in BlocksOver(B, n - 1), x \in B}

\* the buffer calloc() returns: n zero bytes
Zeros(n) == [i \in 1..n |-> 0]

\* buf with its first Len(src) bytes replaced by src
Overwrite(buf, src) ==
  [i \in 1..Len(buf) |-> IF i <= Len(src) THEN src[i] ELSE buf[i]]

\* the first n bytes of buf
Prefix(buf, n) == [i \in 1..n |-> buf[i]]

\* bitwise exclusive or of two naturals
RECURSIVE Xor(_, _)
Xor(a, b) ==
  IF a = 0 THEN b
  ELSE IF b = 0 THEN a
  ELSE ((a + b) % 2) + 2 * Xor(a \div 2, b \div 2)

\* the bytes of a uint64_t in memory (little endian), as fwrite() appends them
RECURSIVE LeBytes(_, _)
LeBytes(v, n) ==
  IF n = 0 THEN <<>> ELSE <<v % 256>> \o LeBytes(v \div 256, n - 1)

(***************************************************************************)
(* anerd_salt: the next salt from the previous one, a clock reading        *)
(* (tv_usec) and, when the previous salt is 0, a rand() result.            *)
(***************************************************************************)
anerd_salt(salt, tv_usec, rnd) ==
  LET this_usec == 1000000 * tv_usec + tv_usec
      seeded == IF salt = 0 THEN rnd ELSE salt
  IN Xor(seeded, this_usec)

VARIABLES
  env,            \* the environment's alphabet in this run: "wide" or "narrow"
  size,           \* main: -s, the block size handed to both roles
  interval,       \* main: -i, the interval handed to the client
  port,           \* main: -p, the port handed to both roles
  s_pc,           \* server: the statement the process is at
  s_data,         \* server: the block buffer (size bytes once allocated)
  s_bytes_read,   \* server: recvfrom()'s result
  s_salt,         \* server: the rolling salt
  s_client_addr,  \* server: the source of the last datagram received
  s_fbuf,         \* server: bytes fwrite() put in the stream, not yet flushed
  s_pool,         \* server: bytes this iteration handed to the device
  s_sent,         \* server: the sendto() call of this iteration
  s_writes,       \* server: the buffer indices written in this iteration
  s_dlen,         \* server: the length of the datagram on the wire
  s_rx,           \* server: the bytes recvfrom() stored in this iteration
  s_drawn,        \* server: the block fread() returned in this iteration
  s_trace,        \* server: the calls of this iteration, in order
  s_io,           \* server: the calls that failed (setup, or this iteration)
  s_from,         \* server: the source of the datagram of this iteration
  c_pc,           \* client: the statement the process is at
  c_data,         \* client: the block buffer (size bytes once allocated)
  c_bytes_read,   \* client: recvfrom()'s result
  c_salt,         \* client: the rolling salt
  c_server_addr,  \* client: the address sendto() sends to
  c_sock,         \* client: the socket descriptor, "open" or "none" (-1)
  c_fbuf,         \* client: bytes fwrite() put in the stream, not yet flushed
  c_pool,         \* client: bytes handed to the device since the last poll()
  c_sent,         \* client: the sendto() call since the last poll()
  c_writes,       \* client: the buffer indices written by the last receive
  c_dlen,         \* client: the length of the last reply on the wire
  c_rx,           \* client: the bytes recvfrom() stored for the last reply
  c_drawn,        \* client: the block fread() returned since the last poll()
  c_poll,         \* client: the last poll() call, its timeout and result
  c_round,        \* client: this round's draw result and sendto() calls
  c_arrived,      \* client: whether a datagram was ever received
  c_setup,        \* client: the setup calls that failed
  c_io,           \* client: the calls that failed since the last poll()
  argv,           \* main: the argument list (argv[0] is the program's name)
  m_i,            \* main: the index i of the argument loop
  m_pc,           \* main: the statement the process is at
  device,         \* main: -d, the device path handed to both roles
  t_salt,         \* a call of anerd_salt: the previous salt
  t_tv,           \* a call of anerd_salt: the clock readings of two calls
  t_out,          \* a call of anerd_salt: the results of the two calls
  k_data,         \* a call of anerd_crc: two blocks
  k_crc,          \* a call of anerd_crc: the results for the two blocks
  net,            \* the datagrams in flight between two nodes
  n_sent          \* the replies the responders of the two nodes have sent

svars == <<s_pc, s_data, s_bytes_read, s_salt, s_client_addr, s_fbuf, s_pool,
           s_sent, s_writes, s_dlen, s_rx, s_drawn, s_trace, s_io, s_from>>
cvars == <<c_pc, c_data, c_bytes_read, c_salt, c_server_addr, c_sock, c_fbuf,
           c_pool, c_sent, c_writes, c_dlen, c_rx, c_drawn, c_poll, c_round,
           c_arrived, c_setup, c_io>>
cfgvars == <<env, size, interval, port>>
auxvars == <<argv, m_i, m_pc, device, t_salt, t_tv, t_out, k_data, k_crc,
             net, n_sent>>
vars == <<cfgvars, auxvars, svars, cvars>>

(***************************************************************************)
(* The environment.  A run of one role alone draws its inputs from the     *)
(* wide alphabet; a run of the two roles side by side draws them from the  *)
(* narrow one (one byte value, one peer, one clock reading, and no failure *)
(* of a call whose result the code does not look at).                      *)
(***************************************************************************)
EnvByte == IF env = "wide" THEN Byte ELSE {1}
EnvPeers ==
  IF env = "wide" THEN Peers ELSE {[ip |-> "203.0.113.5", port |-> 40000]}
EnvUsec == IF env = "wide" THEN TvUsec ELSE {1}
EnvRand == IF env = "wide" THEN Rand ELSE {9}
EnvIndeterminate == IF env = "wide" THEN Indeterminate ELSE {5}
EnvIgnored == IF env = "wide" THEN BOOLEAN ELSE {TRUE}

\* the blocks of n bytes a datagram or the device may hold
Blocks(n) == BlocksOver(EnvByte, n)

(***************************************************************************)
(* The buffer operations both loops share.                                 *)
(***************************************************************************)
\* recvfrom(sock, data, size, ...): at most size bytes of a datagram of len
\* bytes are stored; the rest of the datagram is discarded
RecvLen(len, sz) == Min(len, sz)

\* data[bytes_read] = '\0': the index the terminator is written at
TerminatorIndex(bytes_read) == bytes_read

\* whether C index i lies in a buffer of sz bytes
InBuffer(i, sz) == 0 <= i /\ i < sz

\* fread(ptr, n, 1, fp): the number of whole items of n bytes read, given
\* that got bytes could be read; an item of 0 bytes is never counted
FreadItems(got, n) == IF n > 0 /\ got = n THEN 1 ELSE 0

\* the buffer after data[i] = '\0'; a write outside the buffer leaves the
\* buffer's own bytes as they are
Terminate(buf, i) ==
  IF InBuffer(i, Len(buf)) THEN [buf EXCEPT ![i + 1] = 0] ELSE buf

\* a slip: the address is captured by the first datagram only
RecvFromAddrKept(addr, from, len) == IF addr = NoAddr THEN from ELSE addr

\* recvfrom(..., &addr, &addr_len): the source of the datagram is stored in
\* addr; a failed call (-1) leaves addr as it was
RecvFromAddr(addr, from, len) == IF len = -1 THEN addr ELSE from

(***************************************************************************)
(* anerd_server                                                            *)
(***************************************************************************)
\* a slip: the whole buffer is donated, whatever was received
ServerDonationOfBuffer(buf, bytes_read) == buf

\* fwrite(data, bytes_read, 1, fp): the bytes the server donates
ServerDonation(buf, bytes_read) == Prefix(buf, bytes_read)

\* fread(data, bytes_read, sizeof(char), fp): the bytes the server asks for
ServerDrawLen(bytes_read) == bytes_read

\* line 127, if (fread(...) > 0): the draw is taken to have succeeded
ServerDrawSucceeded(items) == items > 0

\* a slip: the reply is the whole buffer, whatever was received
ServerReplyLenOfBuffer(bytes_read) == size

\* sendto(sock, data, bytes_read, ...): the reply's length
ServerReplyLen(bytes_read) == bytes_read

\* the server's salt (a uint64_t, never negative) before its first assignment
Unassigned == -1

\* line 85, uint64_t salt; with no initialiser: until the first assignment
\* a read of salt gives an indeterminate value
ServerSaltRead == IF s_salt = Unassigned THEN EnvIndeterminate ELSE {s_salt}

\* a setup call of the server: on failure perror() and exit(1)
ServerSetup(at, call, next) ==
  /\ s_pc = at
  /\ \E ok \in BOOLEAN :
       /\ s_pc' = IF ok THEN next ELSE "exit"
       /\ s_io' = IF ok THEN s_io ELSE s_io \cup {call}
  /\ UNCHANGED <<cfgvars, auxvars, cvars, s_from, s_data, s_bytes_read, s_salt, s_client_addr, s_fbuf,
                 s_pool, s_sent, s_writes, s_dlen, s_rx, s_drawn, s_trace>>

\* line 90: socket(AF_INET, SOCK_DGRAM, 0)
ServerSocket == ServerSetup("socket", "socket", "fopen")

\* line 95: fopen(device, "a+")
ServerFopen == ServerSetup("fopen", "fopen", "calloc")

\* line 100: calloc(size, sizeof(char)); a negative size is a size_t too
\* large to allocate
ServerCalloc ==
  /\ s_pc = "calloc"
  /\ \E ok \in {b \in BOOLEAN : b => size >= 0} :
       /\ s_pc' = IF ok THEN "bind" ELSE "exit"
       /\ s_io' = IF ok THEN s_io ELSE s_io \cup {"calloc"}
       /\ s_data' = IF ok THEN Zeros(size) ELSE s_data
  /\ UNCHANGED <<cfgvars, auxvars, cvars, s_from, s_bytes_read, s_salt, s_client_addr, s_fbuf,
                 s_pool, s_sent, s_writes, s_dlen, s_rx, s_drawn, s_trace>>

\* line 109: bind(sock, ...)
ServerBind == ServerSetup("bind", "bind", "recvfrom")

\* lines 116-117: recvfrom() stores a datagram (or fails with -1), then the
\* terminator is written at data[bytes_read].  A terminator outside the
\* buffer is undefined behaviour: the process goes on, or is killed.
ServerRecv ==
  /\ s_pc = "recvfrom"
  /\ \E from \in EnvPeers \cup {NoAddr}, len \in -1..(size + 1) :
       /\ (len = -1) = (from = NoAddr)
       /\ \E rx \in Blocks(RecvLen(len, size)) :
            LET n == IF len = -1 THEN -1 ELSE RecvLen(len, size)
                at == TerminatorIndex(n)
            IN /\ s_bytes_read' = n
               /\ s_dlen' = len
               /\ s_rx' = rx
               /\ s_client_addr' = RecvFromAddr(s_client_addr, from, len)
               /\ s_from' = from
               /\ s_data' = Terminate(Overwrite(s_data, rx), at)
               /\ s_writes' = (0..(n - 1)) \cup {at}
               /\ s_pc' \in IF InBuffer(at, size) THEN {"fwrite"}
                            ELSE {"fwrite", "crashed"}
  /\ s_pool' = <<>>
  /\ s_sent' = NoDgram
  /\ s_drawn' = <<>>
  /\ s_trace' = <<"recvfrom">>
  /\ s_io' = {}
  /\ UNCHANGED <<cfgvars, auxvars, cvars, s_salt, s_fbuf>>

\* lines 122-124: the next salt, then fwrite() of the received bytes and of
\* the salt.  After a failed receive the length is (size_t)-1: the read runs
\* past the buffer (undefined behaviour); the process is killed, or the
\* write of the block fails and the salt alone is written.
ServerMix ==
  /\ s_pc = "fwrite"
  /\ \E tv_usec \in EnvUsec, rnd \in EnvRand, old \in ServerSaltRead :
       LET salt == anerd_salt(old, tv_usec, rnd)
       IN /\ s_salt' = salt
          /\ IF s_bytes_read >= 0
             THEN /\ s_fbuf' = s_fbuf \o ServerDonation(s_data, s_bytes_read)
                                      \o LeBytes(salt, SaltLen)
                  /\ s_io' = s_io
                  /\ s_pc' = "fflush"
             ELSE /\ s_fbuf' = s_fbuf \o LeBytes(salt, SaltLen)
                  /\ s_io' = s_io \cup {"fwrite"}
                  /\ s_pc' \in {"fflush", "crashed"}
  /\ s_trace' = Append(s_trace, "fwrite")
  /\ UNCHANGED <<cfgvars, auxvars, cvars, s_from, s_data, s_bytes_read, s_client_addr, s_pool, s_sent,
                 s_writes, s_dlen, s_rx, s_drawn>>

\* line 125: fflush(fp) hands the stream's bytes to the device; its result
\* is not looked at
ServerFlush ==
  /\ s_pc = "fflush"
  /\ s_pool' = s_pool \o s_fbuf
  /\ s_fbuf' = <<>>
  /\ \E ok \in EnvIgnored : s_io' = IF ok THEN s_io ELSE s_io \cup {"fflush"}
  /\ s_trace' = Append(s_trace, "fflush")
  /\ s_pc' = "fread"
  /\ UNCHANGED <<cfgvars, auxvars, cvars, s_from, s_data, s_bytes_read, s_salt, s_client_addr, s_sent,
                 s_writes, s_dlen, s_rx, s_drawn>>

\* line 127: fread(data, bytes_read, 1, fp) returns 1 when it read all
\* bytes_read bytes and 0 otherwise (a request of 0 bytes returns 0); the
\* bytes it did read are in the buffer either way.  A request of (size_t)-1
\* bytes never completes, and may run past the buffer.
ServerDraw ==
  /\ s_pc = "fread"
  /\ LET want == ServerDrawLen(s_bytes_read)
         most == IF want >= 0 THEN want ELSE size + 1
     IN \E got \in 0..most :
          \E blk \in Blocks(Min(got, size)) :
            LET items == FreadItems(got, want)
                then == IF ServerDrawSucceeded(items) THEN "sendto"
                        ELSE "recvfrom"
            IN /\ s_data' = Overwrite(s_data, blk)
               /\ s_writes' = s_writes \cup (0..(got - 1))
               /\ s_drawn' = IF items = 1 THEN blk ELSE <<>>
               /\ s_io' = IF items = 1 THEN s_io ELSE s_io \cup {"fread"}
               /\ s_pc' \in IF got > size THEN {then, "crashed"} ELSE {then}
  /\ s_trace' = Append(s_trace, "fread")
  /\ UNCHANGED <<cfgvars, auxvars, cvars, s_from, s_bytes_read, s_salt, s_client_addr, s_fbuf, s_pool,
                 s_sent, s_dlen, s_rx>>

\* line 129: sendto(sock, data, bytes_read, 0, &client_addr, ...); its
\* result is not looked at
ServerSend ==
  /\ s_pc = "sendto"
  /\ s_sent' = [len |-> ServerReplyLen(s_bytes_read),
                payload |-> Prefix(s_data, ServerReplyLen(s_bytes_read)),
                to |-> s_client_addr]
  /\ \E ok \in EnvIgnored : s_io' = IF ok THEN s_io ELSE s_io \cup {"sendto"}
  /\ s_trace' = Append(s_trace, "sendto")
  /\ s_pc' = "recvfrom"
  /\ UNCHANGED <<cfgvars, auxvars, cvars, s_from, s_data, s_bytes_read, s_salt, s_client_addr, s_fbuf,
                 s_pool, s_writes, s_dlen, s_rx, s_drawn>>

\* lines 236-239: the parent process runs anerd_server until it exits or is
\* killed itself
ParentRuns == s_pc \notin {"exit", "crashed"}

ServerNext ==
  \/ ParentRuns /\ ServerSocket
  \/ ParentRuns /\ ServerFopen
  \/ ParentRuns /\ ServerCalloc
  \/ ParentRuns /\ ServerBind
  \/ ParentRuns /\ ServerRecv
  \/ ParentRuns /\ ServerMix
  \/ ParentRuns /\ ServerFlush
  \/ ParentRuns /\ ServerDraw
  \/ ParentRuns /\ ServerSend

(***************************************************************************)
(* anerd_client                                                            *)
(***************************************************************************)
\* htons(port): the 16 bits of the port that go into sin_port
Htons(p) == p % 65536

\* INADDR_BROADCAST and the configured port (lines 173-175)
BroadcastAddr == [ip |-> "255.255.255.255", port |-> Htons(port)]

\* interval*1000 in a 32-bit int: the product modulo 2^32, read as a signed
\* value.  The product is computed on 16-bit halves.
PollTimeout(secs) ==
  LET lo == secs % 65536
      hi == (secs \div 65536) % 65536
      plo == (lo * 1000) % 65536
      phi == (hi * 1000 + (lo * 1000) \div 65536) % 65536
  IN IF phi >= 32768 THEN (phi - 65536) * 65536 + plo ELSE phi * 65536 + plo

\* a slip: an interval of 0 runs the loop
LoopConditionWithZero(secs) == secs >= 0

\* line 184, while (interval > 0)
LoopCondition(secs) == secs > 0

\* fread(data, size, sizeof(char), fp): the bytes the client asks for
ClientDrawLen(sz) == sz

\* a slip: a draw that read no whole block is taken to have succeeded
ClientDrawSucceededAlways(items) == items >= 0

\* line 186, if (fread(...) > 0): the draw is taken to have succeeded
ClientDrawSucceeded(items) == items > 0

\* fwrite(data, size, 1, fp): the bytes the client donates
ClientDonation(buf, sz, bytes_read) == Prefix(buf, sz)

\* no poll() call was made
NoPoll == [timeout |-> 0, ret |-> 2]

\* line 159: calloc(size, sizeof(char)); on failure perror() and exit(1)
ClientCalloc ==
  /\ c_pc = "calloc"
  /\ \E ok \in {b \in BOOLEAN : b => size >= 0} :
       /\ c_pc' = IF ok THEN "socket" ELSE "exit"
       /\ c_setup' = IF ok THEN c_setup ELSE c_setup \cup {"calloc"}
       /\ c_data' = IF ok THEN Zeros(size) ELSE c_data
  /\ UNCHANGED <<cfgvars, auxvars, svars, c_bytes_read, c_salt, c_server_addr, c_sock,
                 c_fbuf, c_pool, c_sent, c_writes, c_dlen, c_rx, c_drawn,
                 c_poll, c_io, c_round,
                 c_arrived>>

\* lines 164-168: socket(); on failure perror() and the function goes on
\* with sock = -1
ClientSocket ==
  /\ c_pc = "socket"
  /\ \E ok \in BOOLEAN :
       /\ c_sock' = IF ok THEN "open" ELSE "none"
       /\ c_setup' = IF ok THEN c_setup ELSE c_setup \cup {"socket"}
  /\ c_pc' = "setsockopt"
  /\ UNCHANGED <<cfgvars, auxvars, svars, c_data, c_bytes_read, c_salt, c_server_addr,
                 c_fbuf, c_pool, c_sent, c_writes, c_dlen, c_rx, c_drawn,
                 c_poll, c_io, c_round,
                 c_arrived>>

\* lines 170-176: setsockopt(SO_BROADCAST) (it fails on sock = -1); on
\* failure perror() and the function goes on; then the broadcast address
ClientSetsockopt ==
  /\ c_pc = "setsockopt"
  /\ \E ok \in {b \in BOOLEAN : b => c_sock = "open"} :
       c_setup' = IF ok THEN c_setup ELSE c_setup \cup {"setsockopt"}
  /\ c_server_addr' = BroadcastAddr
  /\ c_pc' = "fopen"
  /\ UNCHANGED <<cfgvars, auxvars, svars, c_data, c_bytes_read, c_salt, c_sock, c_fbuf,
                 c_pool, c_sent, c_writes, c_dlen, c_rx, c_drawn, c_poll,
                 c_io, c_round,
                 c_arrived>>

\* a slip: a device that could not be opened is only reported
ClientFopenNextReported(ok) == "while"

\* lines 177-182: where the client goes after fopen(): into the loop, or on
\* failure (fp == NULL) to exit(1)
ClientFopenNext(ok) == IF ok THEN "while" ELSE "exit"

\* line 177: fopen(device, "a+"); on failure perror(), close() and exit(1)
ClientFopen ==
  /\ c_pc = "fopen"
  /\ \E ok \in BOOLEAN :
       /\ c_pc' = ClientFopenNext(ok)
       /\ c_setup' = IF ok THEN c_setup ELSE c_setup \cup {"fopen"}
       /\ c_sock' = IF ok THEN c_sock ELSE "none"
  /\ UNCHANGED <<cfgvars, auxvars, svars, c_data, c_bytes_read, c_salt, c_server_addr,
                 c_fbuf, c_pool, c_sent, c_writes, c_dlen, c_rx, c_drawn,
                 c_poll, c_io, c_round,
                 c_arrived>>

\* line 184: while (interval > 0); when it is false: close(), free(),
\* fclose() and return 0 (lines 207-210)
ClientWhile ==
  /\ c_pc = "while"
  /\ c_pc' = IF LoopCondition(interval) THEN "fread" ELSE "return"
  /\ c_sock' = IF LoopCondition(interval) THEN c_sock ELSE "none"
  /\ UNCHANGED <<cfgvars, auxvars, svars, c_data, c_bytes_read, c_salt, c_server_addr,
                 c_fbuf, c_pool, c_sent, c_writes, c_dlen, c_rx, c_drawn,
                 c_poll, c_setup, c_io, c_round,
                 c_arrived>>

\* line 186: fread(data, size, 1, fp) returns 1 when it read all size bytes
\* and 0 otherwise; the bytes it did read are in the buffer either way.  On
\* failure perror() and the poll loop is next.
ClientDraw ==
  /\ c_pc = "fread"
  /\ LET want == ClientDrawLen(size)
     IN \E got \in 0..want :
          \E blk \in Blocks(got) :
            LET items == FreadItems(got, want)
            IN /\ c_data' = Overwrite(c_data, blk)
               /\ c_drawn' = IF items = 1 THEN blk ELSE <<>>
               /\ c_io' = IF items = 1 THEN {} ELSE {"fread"}
               /\ c_pc' = IF ClientDrawSucceeded(items) THEN "sendto"
                          ELSE "poll"
               /\ c_round' = [draw |-> items = 1, sends |-> 0]
  /\ c_sent' = NoDgram
  /\ c_pool' = <<>>
  /\ c_rx' = <<>>
  /\ c_dlen' = 0
  /\ c_writes' = {}
  /\ c_poll' = NoPoll
  /\ UNCHANGED <<cfgvars, auxvars, svars, c_bytes_read, c_salt, c_server_addr, c_sock,
                 c_fbuf, c_setup, c_arrived>>

\* line 188: sendto(sock, data, size, 0, &server_addr, ...); its result is
\* not looked at (it fails on sock = -1)
ClientSend ==
  /\ c_pc = "sendto"
  /\ c_sent' = [len |-> size, payload |-> Prefix(c_data, size),
                to |-> c_server_addr]
  /\ \E ok \in {b \in BOOLEAN : IF c_sock = "open" THEN b \in EnvIgnored
                                                     ELSE ~b} :
       c_io' = IF ok THEN c_io ELSE c_io \cup {"sendto"}
  /\ c_round' = [c_round EXCEPT !.sends = @ + 1]
  /\ c_pc' = "poll"
  /\ UNCHANGED <<cfgvars, auxvars, svars, c_data, c_bytes_read, c_salt, c_server_addr,
                 c_sock, c_fbuf, c_pool, c_writes, c_dlen, c_rx, c_drawn,
                 c_poll, c_setup, c_arrived>>

\* line 193: poll(&ufds, 1, interval*1000) returns 1 when a datagram is
\* ready (never for sock = -1, which poll skips), 0 when the timeout ran
\* out (never for a negative timeout, which waits for ever) and -1 on an
\* error; the loop body runs only for a result > 0
ClientPoll ==
  /\ c_pc = "poll"
  /\ LET timeout == PollTimeout(interval)
     IN \E ret \in {-1, 0, 1} :
          /\ ret = 1 => c_sock = "open"
          /\ ret = 0 => timeout >= 0
          /\ c_poll' = [timeout |-> timeout, ret |-> ret]
          /\ c_pc' = IF ret > 0 THEN "recvfrom" ELSE "while"
  /\ c_sent' = NoDgram
  /\ c_drawn' = <<>>
  /\ c_pool' = <<>>
  /\ c_rx' = <<>>
  /\ c_dlen' = 0
  /\ c_writes' = {}
  /\ c_io' = {}
  /\ UNCHANGED <<cfgvars, auxvars, svars, c_data, c_bytes_read, c_salt, c_server_addr,
                 c_sock, c_fbuf, c_round, c_arrived, c_setup>>

\* lines 195-196: recvfrom() stores a reply and its source in server_addr
\* (or fails with -1), then the terminator is written at data[bytes_read].
\* A terminator outside the buffer is undefined behaviour: the process goes
\* on, or is killed.
ClientRecv ==
  /\ c_pc = "recvfrom"
  /\ \E from \in EnvPeers \cup {NoAddr}, len \in -1..(size + 1) :
       /\ (len = -1) = (from = NoAddr)
       /\ \E rx \in Blocks(RecvLen(len, size)) :
            LET n == IF len = -1 THEN -1 ELSE RecvLen(len, size)
                at == TerminatorIndex(n)
            IN /\ c_bytes_read' = n
               /\ c_dlen' = len
               /\ c_rx' = rx
               /\ c_server_addr' = RecvFromAddr(c_server_addr, from, len)
               /\ c_data' = Terminate(Overwrite(c_data, rx), at)
               /\ c_writes' = (0..(n - 1)) \cup {at}
               /\ c_pc' \in IF InBuffer(at, size) THEN {"fwrite"}
                            ELSE {"fwrite", "crashed"}
               /\ c_arrived' = (c_arrived \/ len >= 0)
  /\ UNCHANGED <<cfgvars, auxvars, svars, c_salt, c_sock, c_fbuf, c_pool, c_sent,
                 c_drawn, c_poll, c_setup, c_io, c_round>>

\* lines 200-202: the next salt, then fwrite() of size bytes of the buffer
\* and of the salt
ClientMix ==
  /\ c_pc = "fwrite"
  /\ \E tv_usec \in EnvUsec, rnd \in EnvRand :
       LET salt == anerd_salt(c_salt, tv_usec, rnd)
       IN /\ c_salt' = salt
          /\ c_fbuf' = c_fbuf \o ClientDonation(c_data, size, c_bytes_read)
                              \o LeBytes(salt, SaltLen)
  /\ c_pc' = "fflush"
  /\ UNCHANGED <<cfgvars, auxvars, svars, c_data, c_bytes_read, c_server_addr, c_sock,
                 c_pool, c_sent, c_writes, c_dlen, c_rx, c_drawn, c_poll,
                 c_setup, c_io, c_round,
                 c_arrived>>

\* line 203: fflush(fp) hands the stream's bytes to the device; its result
\* is not looked at
ClientFlush ==
  /\ c_pc = "fflush"
  /\ c_pool' = c_pool \o c_fbuf
  /\ c_fbuf' = <<>>
  /\ \E ok \in EnvIgnored : c_io' = IF ok THEN c_io ELSE c_io \cup {"fflush"}
  /\ c_pc' = "poll"
  /\ UNCHANGED <<cfgvars, auxvars, svars, c_data, c_bytes_read, c_salt, c_server_addr,
                 c_sock, c_sent, c_writes, c_dlen, c_rx, c_drawn, c_poll,
                 c_setup, c_round,
                 c_arrived>>

\* a slip: the child is taken down when its parent exits
ChildRunsWithParent == c_pc \notin {"return", "exit", "crashed"} /\ s_pc # "exit"

\* lines 233-235: the child that fork() created is a process of its own: it
\* runs anerd_client until it returns, exits or is killed itself
ChildRuns == c_pc \notin {"return", "exit", "crashed"}

ClientNext ==
  \/ ChildRuns /\ ClientCalloc
  \/ ChildRuns /\ ClientSocket
  \/ ChildRuns /\ ClientSetsockopt
  \/ ChildRuns /\ ClientFopen
  \/ ChildRuns /\ ClientWhile
  \/ ChildRuns /\ ClientDraw
  \/ ChildRuns /\ ClientSend
  \/ ChildRuns /\ ClientPoll
  \/ ChildRuns /\ ClientRecv
  \/ ChildRuns /\ ClientMix
  \/ ChildRuns /\ ClientFlush

(***************************************************************************)
(* The program after main() has read its arguments and forked.             *)
(***************************************************************************)
DEFAULT_DEVICE == <<"/dev/urandom">>

\* main() has forked; no function is being called on its own and no
\* datagram is in flight between two nodes
AuxIdle ==
  /\ argv = <<>>
  /\ m_i = 0
  /\ m_pc = "forked"
  /\ device = DEFAULT_DEVICE
  /\ t_salt = 0
  /\ t_tv = <<>>
  /\ t_out = <<>>
  /\ k_data = <<>>
  /\ k_crc = <<>>
  /\ net = {}
  /\ n_sent = 0

\* the intervals (-i) main() may hand to the client: none, and some whose
\* product with 1000 does and does not fit a 32-bit int
Intervals == {-1, 0, 1, 2147483, 2147484, 4294968}

Init ==
  /\ env = "narrow"
  /\ size \in Sizes
  /\ interval \in {i \in Intervals : i <= 1}
  /\ port = DEFAULT_PORT
  /\ s_pc = "socket"
  /\ s_data = <<>>
  /\ s_bytes_read = 0
  /\ s_salt = Unassigned
  /\ s_client_addr = NoAddr
  /\ s_fbuf = <<>>
  /\ s_pool = <<>>
  /\ s_sent = NoDgram
  /\ s_writes = {}
  /\ s_dlen = 0
  /\ s_rx = <<>>
  /\ s_drawn = <<>>
  /\ s_trace = <<>>
  /\ s_io = {}
  /\ s_from = NoAddr
  /\ AuxIdle
  /\ c_pc = "calloc"
  /\ c_data = <<>>
  /\ c_bytes_read = 0
  /\ c_salt = 0
  /\ c_server_addr = NoAddr
  /\ c_sock = "none"
  /\ c_fbuf = <<>>
  /\ c_pool = <<>>
  /\ c_sent = NoDgram
  /\ c_writes = {}
  /\ c_dlen = 0
  /\ c_rx = <<>>
  /\ c_drawn = <<>>
  /\ c_poll = NoPoll
  /\ c_round = [draw |-> FALSE, sends |-> 0]
  /\ c_arrived = FALSE
  /\ c_setup = {}
  /\ c_io = {}

\* the same start with the wide alphabet, for the runs of one role alone
InitRole ==
  /\ env = "wide"
  /\ size \in Sizes
  /\ interval \in Intervals
  /\ port = DEFAULT_PORT
  /\ s_pc = "socket"
  /\ s_data = <<>>
  /\ s_bytes_read = 0
  /\ s_salt = Unassigned
  /\ s_client_addr = NoAddr
  /\ s_fbuf = <<>>
  /\ s_pool = <<>>
  /\ s_sent = NoDgram
  /\ s_writes = {}
  /\ s_dlen = 0
  /\ s_rx = <<>>
  /\ s_drawn = <<>>
  /\ s_trace = <<>>
  /\ s_io = {}
  /\ s_from = NoAddr
  /\ AuxIdle
  /\ c_pc = "calloc"
  /\ c_data = <<>>
  /\ c_bytes_read = 0
  /\ c_salt = 0
  /\ c_server_addr = NoAddr
  /\ c_sock = "none"
  /\ c_fbuf = <<>>
  /\ c_pool = <<>>
  /\ c_sent = NoDgram
  /\ c_writes = {}
  /\ c_dlen = 0
  /\ c_rx = <<>>
  /\ c_drawn = <<>>
  /\ c_poll = NoPoll
  /\ c_round = [draw |-> FALSE, sends |-> 0]
  /\ c_arrived = FALSE
  /\ c_setup = {}
  /\ c_io = {}


\* the responder alone (the parent process)
SpecServer == InitRole /\ [][ServerNext]_vars

\* the initiator alone (the child process)
SpecClient == InitRole /\ [][ClientNext]_vars

Next == ServerNext \/ ClientNext

Spec == Init /\ [][Next]_vars

(***************************************************************************)
(* The functions of the program called on their own.                       *)
(***************************************************************************)
\* the two roles at their first statement, with nothing received or sent
RolesAtStart ==
  /\ s_pc = "socket"
  /\ s_data = <<>>
  /\ s_bytes_read = 0
  /\ s_salt = Unassigned
  /\ s_client_addr = NoAddr
  /\ s_fbuf = <<>>
  /\ s_pool = <<>>
  /\ s_sent = NoDgram
  /\ s_writes = {}
  /\ s_dlen = 0
  /\ s_rx = <<>>
  /\ s_drawn = <<>>
  /\ s_trace = <<>>
  /\ s_io = {}
  /\ s_from = NoAddr
  /\ c_pc = "calloc"
  /\ c_data = <<>>
  /\ c_bytes_read = 0
  /\ c_salt = 0
  /\ c_server_addr = NoAddr
  /\ c_sock = "none"
  /\ c_fbuf = <<>>
  /\ c_pool = <<>>
  /\ c_sent = NoDgram
  /\ c_writes = {}
  /\ c_dlen = 0
  /\ c_rx = <<>>
  /\ c_drawn = <<>>
  /\ c_poll = NoPoll
  /\ c_round = [draw |-> FALSE, sends |-> 0]
  /\ c_arrived = FALSE
  /\ c_setup = {}
  /\ c_io = {}

\* the configuration main() starts from (lines 215-218)
DEFAULT_SIZE == 64
DEFAULT_INTERVAL == 60

Defaults ==
  /\ env = "wide"
  /\ size = DEFAULT_SIZE
  /\ interval = DEFAULT_INTERVAL
  /\ port = DEFAULT_PORT
  /\ device = DEFAULT_DEVICE

\* the readings of gettimeofday(): seconds and microseconds
Secs == {0, 1}
Timeval == [tv_sec : Secs, tv_usec : TvUsec]

\* the previous salts anerd_salt is called with
Salts == {0, 5, 9}

\* lines 52-59: the salt anerd_salt returns when gettimeofday() reads tv;
\* of the reading the function uses tv.tv_usec, twice
SaltAt(salt, tv, rnd) == anerd_salt(salt, tv.tv_usec, rnd)

InitSalt ==
  /\ RolesAtStart
  /\ Defaults
  /\ argv = <<>>
  /\ m_i = 0
  /\ m_pc = "forked"
  /\ t_salt \in Salts
  /\ t_tv \in [1..2 -> Timeval]
  /\ t_out = <<>>
  /\ k_data = <<>>
  /\ k_crc = <<>>
  /\ net = {}
  /\ n_sent = 0

\* anerd_salt(t_salt) at the first reading, anerd_salt(t_salt) at the second
\* reading, and anerd_salt of the first result at the second reading
SaltCalls ==
  /\ t_out = <<>>
  /\ \E r1 \in Rand, r2 \in Rand, r3 \in Rand :
       LET first == SaltAt(t_salt, t_tv[1], r1)
       IN t_out' = <<first, SaltAt(t_salt, t_tv[2], r2),
                     SaltAt(first, t_tv[2], r3)>>
  /\ UNCHANGED <<cfgvars, svars, cvars, argv, m_i, m_pc, device, t_salt, t_tv,
                 k_data, k_crc, net, n_sent>>

SpecSalt == InitSalt /\ [][SaltCalls]_vars

\* the longest block anerd_crc is called with
MaxCrcLen == 3

\* the values of a char in memory (a signed char: -128..127)
Chars == {-128, -1, 0, 127}

\* a slip: the char is added as it is
PlainChar(c) == c

\* (unsigned char)c: the value of the char modulo 256
UnsignedChar(c) == c % 256

\* lines 66-73: the sum of the first len bytes of data, each converted to
\* unsigned char (the sums of the model's blocks stay far below INT_MAX)
RECURSIVE anerd_crc(_, _)
anerd_crc(data, len) ==
  IF len <= 0 THEN 0
  ELSE anerd_crc(data, len - 1) + UnsignedChar(data[len])

InitCrc ==
  /\ RolesAtStart
  /\ Defaults
  /\ argv = <<>>
  /\ m_i = 0
  /\ m_pc = "forked"
  /\ t_salt = 0
  /\ t_tv = <<>>
  /\ t_out = <<>>
  /\ \E n \in 0..MaxCrcLen :
       k_data \in [1..2 -> BlocksOver(Chars, n)]
  /\ k_crc = <<>>
  /\ net = {}
  /\ n_sent = 0

\* anerd_crc(data, len) for each of the two blocks
CrcCalls ==
  /\ k_crc = <<>>
  /\ k_crc' = <<anerd_crc(k_data[1], Len(k_data[1])),
                anerd_crc(k_data[2], Len(k_data[2]))>>
  /\ UNCHANGED <<cfgvars, svars, cvars, argv, m_i, m_pc, device, t_salt, t_tv,
                 t_out, k_data, net, n_sent>>

SpecCrc == InitCrc /\ [][CrcCalls]_vars

(***************************************************************************)
(* main: the argument loop and the fork.  An argument is a sequence of     *)
(* characters.                                                             *)
(***************************************************************************)
\* the most arguments after the program's name
MaxArgs == 2

\* argv[argc], the null pointer that ends the argument list
NullPtr == <<"(null)">>

\* the arguments of the model: the four flags, a flag with text after it,
\* a word that is no flag, and two numbers
Words == {<<"-", "d">>, <<"-", "i">>, <<"-", "p">>, <<"-", "s">>,
          <<"-", "s", "9">>, <<"x">>, <<"7">>, <<"-", "1">>}

RECURSIVE ArgLists(_)
ArgLists(n) ==
  IF n = 0 THEN {<<>>}
  ELSE ArgLists(n - 1) \cup
       {Append(l, w) : l \in {a \in ArgLists(n - 1) : Len(a) = n - 1},
                       w \in Words}

\* strncmp(arg, "-c", 2) == 0: the first two characters of arg are - and c
IsFlag(arg, c) == Len(arg) >= 2 /\ arg[1] = "-" /\ arg[2] = c

\* the value of a decimal digit, -1 for any other character
Digit(c) ==
  CASE c = "0" -> 0 [] c = "1" -> 1 [] c = "2" -> 2 [] c = "3" -> 3
    [] c = "4" -> 4 [] c = "5" -> 5 [] c = "6" -> 6 [] c = "7" -> 7
    [] c = "8" -> 8 [] c = "9" -> 9 [] OTHER -> -1

RECURSIVE AtoiDigits(_, _)
AtoiDigits(s, acc) ==
  IF s = <<>> \/ Digit(Head(s)) < 0 THEN acc
  ELSE AtoiDigits(Tail(s), 10 * acc + Digit(Head(s)))

\* atoi(s): an optional sign and the digits that follow it; 0 when there
\* are none
Atoi(s) ==
  IF s # <<>> /\ Head(s) = "-" THEN 0 - AtoiDigits(Tail(s), 0)
  ELSE AtoiDigits(s, 0)

\* argv[i] for 0 <= i <= argc
ArgAt(i) == IF i < Len(argv) THEN argv[i + 1] ELSE NullPtr

InitMain ==
  /\ RolesAtStart
  /\ Defaults
  /\ argv \in {<<(<<"anerd">>)>> \o l : l \in ArgLists(MaxArgs)}
  /\ m_i = 0
  /\ m_pc = "args"
  /\ t_salt = 0
  /\ t_tv = <<>>
  /\ t_out = <<>>
  /\ k_data = <<>>
  /\ k_crc = <<>>
  /\ net = {}
  /\ n_sent = 0

\* lines 220-230: one turn of the argument loop.  A flag takes argv[++i]
\* as its value, whatever it is; any other argument is passed over.
\* atoi() of the null pointer is undefined behaviour: the process is
\* killed, or goes on with 0.
MainArg ==
  /\ m_pc = "args"
  /\ m_i < Len(argv)
  /\ LET arg == ArgAt(m_i)
         val == ArgAt(m_i + 1)
         num == IsFlag(arg, "i") \/ IsFlag(arg, "p") \/ IsFlag(arg, "s")
         flag == IsFlag(arg, "d") \/ num
     IN /\ device' = IF IsFlag(arg, "d") THEN val ELSE device
        /\ interval' = IF ~IsFlag(arg, "d") /\ IsFlag(arg, "i")
                       THEN Atoi(val) ELSE interval
        /\ port' = IF ~IsFlag(arg, "d") /\ ~IsFlag(arg, "i")
                      /\ IsFlag(arg, "p")
                   THEN Atoi(val) ELSE port
        /\ size' = IF ~IsFlag(arg, "d") /\ ~IsFlag(arg, "i")
                      /\ ~IsFlag(arg, "p") /\ IsFlag(arg, "s")
                   THEN Atoi(val) ELSE size
        /\ m_i' = IF flag THEN m_i + 2 ELSE m_i + 1
        /\ m_pc' \in IF ~IsFlag(arg, "d") /\ num /\ val = NullPtr
                      THEN {"args", "crashed"} ELSE {"args"}
  /\ UNCHANGED <<env, argv, svars, cvars, t_salt, t_tv, t_out, k_data, k_crc,
                 net, n_sent>>

\* lines 232-239: the loop is over (i >= argc); openlog(), then fork(): the
\* child runs anerd_client and the parent anerd_server; when fork() fails
\* its result is not 0 and the one process runs anerd_server
MainFork ==
  /\ m_pc = "args"
  /\ m_i >= Len(argv)
  /\ m_pc' \in {"forked", "nochild"}
  /\ UNCHANGED <<cfgvars, svars, cvars, argv, m_i, device, t_salt, t_tv,
                 t_out, k_data, k_crc, net, n_sent>>

MainNext == MainArg \/ MainFork

SpecMain == InitMain /\ [][MainNext]_vars

(***************************************************************************)
(* Two nodes that run the program, and the datagrams between them.  A      *)
(* step is one whole turn of a loop body.                                  *)
(***************************************************************************)
\* the most replies counted
MaxReplies == 3

\* the nodes whose responder is bound to the service port
Hosts == {"203.0.113.1", "203.0.113.9"}

\* the socket a node's responder is bound to (lines 105-109)
ServiceAddr(h) == [ip |-> h, port |-> Htons(port)]

\* the sources a datagram may carry: the socket of an initiator, and the
\* service socket of a responder
Sources ==
  {[ip |-> "203.0.113.5", port |-> 40000], [ip |-> "203.0.113.9", port |-> 40000]}
    \cup {ServiceAddr(h) : h \in Hosts}

InitExchange ==
  /\ RolesAtStart
  /\ env = "wide"
  /\ size \in 0..MaxSize
  /\ interval = DEFAULT_INTERVAL
  /\ port = DEFAULT_PORT
  /\ device = DEFAULT_DEVICE
  /\ argv = <<>>
  /\ m_i = 0
  /\ m_pc = "forked"
  /\ t_salt = 0
  /\ t_tv = <<>>
  /\ t_out = <<>>
  /\ k_data = <<>>
  /\ k_crc = <<>>
  /\ \E src \in Sources, h \in Hosts, len \in 0..(MaxSize + 1) :
       net = {[src |-> src, dst |-> ServiceAddr(h), len |-> len]}
  /\ n_sent = 0

\* lines 116-133, one turn of a responder's loop: a datagram addressed to
\* its socket is received, its bytes are donated, a block of the same
\* length is drawn and, when the draw succeeded, sent to the datagram's
\* source.  (A turn that ends the process sends nothing, as a failed draw.)
Respond(h) ==
  /\ n_sent < MaxReplies
  /\ \E d \in net :
       /\ d.dst = ServiceAddr(h)
       /\ LET bytes_read == RecvLen(d.len, size)
              client_addr == RecvFromAddr(NoAddr, d.src, d.len)
              want == ServerDrawLen(bytes_read)
          IN \E got \in 0..want :
               IF ServerDrawSucceeded(FreadItems(got, want))
               THEN /\ net' = (net \ {d}) \cup
                                {[src |-> ServiceAddr(h), dst |-> client_addr,
                                  len |-> ServerReplyLen(bytes_read)]}
                    /\ n_sent' = n_sent + 1
               ELSE /\ net' = net \ {d}
                    /\ n_sent' = n_sent
  /\ UNCHANGED <<cfgvars, svars, cvars, argv, m_i, m_pc, device, t_salt, t_tv,
                 t_out, k_data, k_crc>>

\* lines 193-204, one turn of an initiator's poll loop: a datagram
\* addressed to its socket is received and donated; nothing is sent
Absorb ==
  /\ \E d \in net :
       /\ d.dst \notin {ServiceAddr(h) : h \in Hosts}
       /\ net' = net \ {d}
  /\ UNCHANGED <<cfgvars, svars, cvars, argv, m_i, m_pc, device, t_salt, t_tv,
                 t_out, k_data, k_crc, n_sent>>

ExchangeNext == (\E h \in Hosts : Respond(h)) \/ Absorb

SpecExchange == InitExchange /\ [][ExchangeNext]_vars

(***************************************************************************)
(* Properties.                                                             *)
(***************************************************************************)
\* the calls of the server's iteration so far include call
ServerDid(call) == \E k \in 1..Len(s_trace) : s_trace[k] = call

\* the server has finished the iteration of a datagram of n >= 0 bytes
ServerHandled(n) ==
  /\ s_pc = "recvfrom"
  /\ s_bytes_read = n
  /\ ServerDid("fread")

\* C1: in both loops, receiving a datagram (of any length, or failing to)
\* and handling it writes only buffer indices in 0..size-1.
C1_WritesInBuffer ==
  size > 0 => \A i \in s_writes \cup c_writes : InBuffer(i, size)

\* C2: for every datagram of n > 0 bytes the responder receives, a successful
\* draw is followed by one sendto() of exactly n bytes, and a failed draw by
\* no sendto() and no second draw.
C2_ReplyLength ==
  \A n \in 1..MaxSize + 1 :
    ServerHandled(n) =>
      IF "fread" \notin s_io
      THEN /\ s_sent.len = n
           /\ Len(s_sent.payload) = n
           /\ s_trace = <<"recvfrom", "fwrite", "fflush", "fread", "sendto">>
      ELSE /\ s_sent = NoDgram
           /\ s_trace = <<"recvfrom", "fwrite", "fflush", "fread">>

\* a datagram shorter than the buffer was answered with a block of its length
C2_Witness ==
  /\ ServerHandled(1)
  /\ size = 2
  /\ s_sent.len = 1
  /\ s_io = {}

\* C3: for every datagram of n bytes the responder receives, the n received
\* bytes followed by the 8 bytes of the salt (n+8 bytes) have been written
\* and flushed to the pool when the draw is made, the calls are made in the
\* order fwrite, fflush, fread, sendto, and the reply is the block drawn.
C3_DonateBeforeDraw ==
  (s_bytes_read >= 0 /\ (s_pc = "fread" \/ ServerDid("fread"))) =>
    /\ s_pool = s_rx \o LeBytes(s_salt, SaltLen)
    /\ Len(s_pool) = s_bytes_read + SaltLen
    /\ s_fbuf = <<>>
    /\ SubSeq(s_trace, 1, 3) = <<"recvfrom", "fwrite", "fflush">>
    /\ ServerDid("sendto") =>
         /\ s_trace = <<"recvfrom", "fwrite", "fflush", "fread", "sendto">>
         /\ s_sent.payload = s_drawn

\* a full block was donated with its salt, and the block drawn after was sent
C3_Witness ==
  /\ ServerHandled(2)
  /\ Len(s_pool) = 2 + SaltLen
  /\ s_rx = <<1, 1>>
  /\ s_sent.payload = <<0, 1>>

\* C4: for every reply of m bytes (0 < m <= size) the initiator receives, it
\* donates exactly the m reply bytes followed by the 8 bytes of the salt.
C4_DonatesReplyOnly ==
  (c_pc = "poll" /\ c_pool # <<>> /\ c_dlen > 0 /\ c_dlen <= size) =>
    /\ c_pool = c_rx \o LeBytes(c_salt, SaltLen)
    /\ Len(c_pool) = c_dlen + SaltLen

\* the timeout of the last poll() is the configured interval, in milliseconds
WaitedInterval ==
  /\ c_poll.timeout % 1000 = 0
  /\ c_poll.timeout \div 1000 = interval

\* C5: while the initiator awaits replies every wait is given the full
\* configured interval as its timeout, also after a reply was processed,
\* and every reply that arrived has been donated when the next wait starts.
C5_FullIntervalWait ==
  (size > 0 /\ c_setup = {} /\ c_poll # NoPoll /\ c_poll.ret >= 0) =>
    /\ WaitedInterval
    /\ (c_pc = "poll" /\ c_poll.ret = 1) => c_pool # <<>>

\* C6: as long as no datagram has arrived, every broadcast carries exactly
\* size bytes to the broadcast address on the configured port, and a round
\* ends, and the next broadcast is due, when exactly one interval has elapsed.
C6_BroadcastPerInterval ==
  (size > 0 /\ c_setup = {} /\ ~c_arrived) =>
    /\ c_sent # NoDgram =>
         /\ c_sent.len = size
         /\ Len(c_sent.payload) = size
         /\ c_sent.to = [ip |-> "255.255.255.255", port |-> port]
    /\ (c_pc = "while" /\ c_poll # NoPoll /\ c_poll.ret = 0) => WaitedInterval

\* C7: a round whose draw failed sends no datagram and goes on to the poll
\* loop; every broadcast's payload is the block drawn in its own round.
C7_NoStaleBroadcast ==
  /\ ~c_round.draw => c_round.sends = 0
  /\ "fread" \in c_io => c_pc = "poll" /\ c_sent = NoDgram
  /\ c_sent # NoDgram =>
       /\ c_round.draw
       /\ c_round.sends = 1
       /\ c_sent.len = size
       /\ c_sent.payload = c_drawn

\* a draw failed while the buffer still held the block of an earlier round,
\* nothing was sent and the initiator is about to wait for replies
C7_Witness ==
  /\ c_pc = "poll"
  /\ c_io = {"fread"}
  /\ c_data = <<1, 1>>
  /\ c_sent = NoDgram
  /\ c_round = [draw |-> FALSE, sends |-> 0]

\* C8: with an interval of 0 or less the initiator never draws, sends or
\* polls: it runs its setup and returns.
C8_DisabledInitiator ==
  interval <= 0 =>
    /\ c_pc \in {"calloc", "socket", "setsockopt", "fopen", "while", "return",
                "exit"}
    /\ c_round.sends = 0
    /\ c_sent = NoDgram
    /\ c_drawn = <<>>
    /\ c_poll = NoPoll

\* the initiator has returned for an interval of 0 and the responder of the
\* same start has received a datagram and answered it
C8_Witness ==
  /\ interval = 0
  /\ c_pc = "return"
  /\ ServerHandled(1)
  /\ s_sent.len = 1
  /\ s_sent.to \in Peers

\* C9: once a loop runs, handling a received datagram never ends the
\* process, whatever the donate, the draw and the send did.
C9_LoopsNeverEnd ==
  size > 0 =>
    /\ (s_dlen >= 0 /\ s_trace # <<>>) =>
         s_pc \in {"recvfrom", "fwrite", "fflush", "fread", "sendto"}
    /\ c_dlen > 0 => c_pc \in {"recvfrom", "fwrite", "fflush", "poll"}

\* C10: a role that failed to create its socket, open the device, allocate
\* its buffer or (the responder) bind its socket has drawn nothing from the
\* pool, written nothing to it, sent nothing and received nothing.
C10_SetupFailureFatal ==
  /\ s_io \cap {"socket", "fopen", "calloc", "bind"} # {} =>
       s_pc = "exit" /\ s_trace = <<>>
  /\ c_setup \cap {"socket", "fopen", "calloc"} # {} =>
       /\ c_drawn = <<>>
       /\ c_sent = NoDgram
       /\ c_pool = <<>>
       /\ c_pc \notin {"recvfrom", "fwrite", "fflush"}

C12_SaltsDiffer ==
  (t_out # <<>> /\ t_salt # 0 /\ t_tv[1] # t_tv[2]) =>
    /\ t_out[1] # t_out[2]
    /\ t_out[3] # t_out[1]

\* the value 0..255 of the byte a char holds
ByteValue(c) == IF c < 0 THEN c + 256 ELSE c

\* the sum of the byte values of a block
RECURSIVE ByteSum(_)
ByteSum(d) == IF d = <<>> THEN 0 ELSE ByteValue(Head(d)) + ByteSum(Tail(d))

\* block e holds the bytes of block d in some order
IsPermutation(d, e) ==
  /\ Len(d) = Len(e)
  /\ \E f \in Permutations(1..Len(d)) : e = [i \in 1..Len(d) |-> d[f[i]]]

\* blocks d and e differ in the value of exactly one byte
OneByteChanged(d, e) ==
  /\ Len(d) = Len(e)
  /\ Cardinality({i \in 1..Len(d) : d[i] # e[i]}) = 1

\* C13: the checksum of a block is the sum of its bytes taken as values in
\* 0..255: it is the same for every permutation of the block, differs when
\* one byte's value is changed, and counts no byte as negative.
C13_ChecksumIsByteSum ==
  k_crc # <<>> =>
    /\ \A j \in 1..2 : k_crc[j] = ByteSum(k_data[j]) /\ k_crc[j] >= 0
    /\ IsPermutation(k_data[1], k_data[2]) => k_crc[1] = k_crc[2]
    /\ OneByteChanged(k_data[1], k_data[2]) => k_crc[1] # k_crc[2]

\* a block with bytes of 128 and more and one of its permutations have the
\* checksum 128 + 255 + 127
C13_Witness ==
  /\ k_data = <<(<<-128, -1, 127>>), (<<127, -128, -1>>)>>
  /\ k_crc = <<510, 510>>

\* the four flags
Flags == {<<"-", "d">>, <<"-", "i">>, <<"-", "p">>, <<"-", "s">>}

\* the arguments are a list of flags, each followed by its value
RECURSIVE FlagValuePairs(_)
FlagValuePairs(args) ==
  \/ args = <<>>
  \/ /\ Len(args) >= 2
     /\ args[1] \in Flags
     /\ FlagValuePairs(SubSeq(args, 3, Len(args)))

\* C14: when a flag is the last argument, with no value after it, or an
\* argument is not a recognised flag, main() does not reach fork(): neither
\* role is started.
C14_RejectsBadArguments ==
  ~FlagValuePairs(Tail(argv)) => m_pc \notin {"forked", "nochild"}

\* the sendto() calls of the server's iteration so far
ServerSends == {k \in 1..Len(s_trace) : s_trace[k] = "sendto"}

\* C15: in an iteration the responder makes at most one sendto() call, only
\* after a datagram was received in that iteration, and addressed to the
\* source address and port of that datagram.
C15_RepliesToSender ==
  /\ Cardinality(ServerSends) <= 1
  /\ ServerSends # {} =>
       /\ s_trace[1] = "recvfrom"
       /\ s_dlen > 0
       /\ s_from \in Peers
       /\ s_sent.to = s_from
  /\ s_sent # NoDgram => ServerSends # {}

\* a datagram sent from the service port of its peer was answered to that
\* address and port
C15_Witness ==
  /\ ServerHandled(1)
  /\ s_from = [ip |-> "203.0.113.9", port |-> DEFAULT_PORT]
  /\ s_sent.to = s_from
  /\ s_sent.len = 1

\* salt is a result of anerd_salt called with the salt prev
NextSaltOf(prev, salt) ==
  \E tv_usec \in TvUsec, rnd \in Rand : salt = anerd_salt(prev, tv_usec, rnd)

\* C16: in both loops the first salt written is anerd_salt of the zero
\* sentinel, and every later one is anerd_salt of the salt written before it.
C16_SaltChain ==
  [][/\ (s_salt' # s_salt /\ s_bytes_read > 0) =>
          NextSaltOf(IF s_salt = Unassigned THEN 0 ELSE s_salt, s_salt')
     /\ c_salt' # c_salt => NextSaltOf(c_salt, c_salt')]_vars

\* C17: when the responder has exited on a setup failure the initiator can
\* still take every step of its loop, when the initiator has returned or
\* exited the responder can still take every step of its own, and the step
\* that ends one role changes nothing of the other.
C17_RolesIndependent ==
  /\ [](/\ (s_pc = "exit" /\ c_pc \notin {"return", "exit", "crashed"})
             => ENABLED ClientNext
        /\ (c_pc \in {"return", "exit"} /\ s_pc \notin {"exit", "crashed"})
             => ENABLED ServerNext)
  /\ [][/\ (s_pc # "exit" /\ s_pc' = "exit") => UNCHANGED cvars
        /\ (c_pc \notin {"return", "exit"} /\ c_pc' \in {"return", "exit"})
             => UNCHANGED svars]_vars

\* the responder has exited because bind() failed, and the initiator of the
\* same start has broadcast a block and is waiting for replies
C17_Witness ==
  /\ s_pc = "exit"
  /\ "bind" \in s_io
  /\ interval > 0
  /\ c_pc = "poll"
  /\ c_sent # NoDgram
  /\ c_sent.len = size

\* C18: after one datagram has reached a responder, the nodes together send
\* no datagram but that responder's reply.
C18_ExchangeStops == n_sent <= 1

\* C19: for every positive interval the timeout handed to poll() is
\* positive and is interval*1000 milliseconds.
C19_TimeoutIsInterval ==
  (interval > 0 /\ c_poll # NoPoll) =>
    /\ c_poll.timeout > 0
    /\ c_poll.timeout \div 1000 = interval
    /\ c_poll.timeout % 1000 = 0

====
